---- MODULE Spec2Model ----
(***************************************************************************)
(* Model of prqueue/priority_queue.py (Task, PriorityQueue,                *)
(* simulate_scheduler), of heap/heapsort.py (heapsort) and of the fixed    *)
(* task set of main.py.                                                    *)
(*                                                                         *)
(* A Task is a Python object: the heap holds references to Task objects,   *)
(* and increase_key writes the priority field of the object it finds.      *)
(* Objects are numbered from 1; task_id, priority and arrival_time         *)
(* are their fields.  Heap indices are the 0-based indices of the code;    *)
(* At(h, i) reads the Python list element h[i].                            *)
(***************************************************************************)
EXTENDS Integers, Sequences, FiniteSets, TLC

\* ---------------------------------------------------------------- bounds
MaxHeap == 3
MaxPriority == 2
MaxDups == 1

None == -1
NoTask == 0

IdNames == <<"A", "B", "C", "D", "E", "F">>

\* the Task objects a caller of the queue holds: one per heap slot,
\* each with an id of its own
Objs == 1..MaxHeap
Priorities == 1..MaxPriority

VARIABLES
    use_max_heap,   \* PriorityQueue.use_max_heap
    heap,           \* PriorityQueue.heap: list of Task references
    position,       \* PriorityQueue.position: dict task_id -> index
    task_id,        \* Task.task_id of every Task object
    priority,       \* Task.priority of every Task object
    arrival_time,   \* Task.arrival_time of every Task object (None = absent)
    result,         \* outcome of the last call: operation, exception, returned Task
    dups,           \* history: number of inserts that found their task_id already resident
    pc,             \* control point of the running function
    tasks,          \* simulate_scheduler: the argument list
    pending,        \* simulate_scheduler: tasks sorted by arrival time
    i,              \* simulate_scheduler: cursor into pending
    time_now,       \* simulate_scheduler: the clock
    timeline,       \* simulate_scheduler: list of (time, Task)
    iter,           \* history: (i, len(heap), time_now, len(timeline)) at the last loop test
    drained,        \* load-then-drain run: priorities of the tasks returned so far
    data,           \* heapsort: the caller's list, passed as arr
    sorted_data,    \* heapsort: the list returned for data
    resorted        \* heapsort: the list returned for sorted_data

vars == <<use_max_heap, heap, position, task_id, priority, arrival_time,
          result, dups, pc, tasks, pending, i, time_now, timeline, iter, drained,
          data, sorted_data, resorted>>

qvars == <<use_max_heap, heap, position, task_id, priority, result, dups>>
svars == <<arrival_time, tasks, pending, i, time_now, timeline, iter, drained>>
hvars == <<data, sorted_data, resorted>>

\* ------------------------------------------------------------ helpers
At(h, k) == h[k + 1]

Range(s) == {s[k] : k \in 1..Len(s)}

\* dict assignment d[k] = v: overwrites, or creates the entry
Put(d, k, v) == [x \in (DOMAIN d) \cup {k} |-> IF x = k THEN v ELSE d[x]]

\* del d[k]
Del(d, k) == [x \in (DOMAIN d) \ {k} |-> d[x]]

Res(op, err, task) == [op |-> op, err |-> err, task |-> task]

\* ------------------------------------------------------ PriorityQueue
\* q is the pair of the queue's two containers, pr the priority field
\* of every Task object.

\* variant: the heap mode is ignored
key_max_only(o, pr) == pr[o]

key(o, pr) == IF use_max_heap THEN pr[o] ELSE 0 - pr[o]

\* variant: only the first of the two position entries is rewritten
swap_one_position(q, a, b) ==
    LET h2 == [q.heap EXCEPT ![a + 1] = At(q.heap, b), ![b + 1] = At(q.heap, a)]
    IN  [heap |-> h2, position |-> Put(q.position, task_id[At(h2, a)], a)]

swap(q, a, b) ==
    LET h2 == [q.heap EXCEPT ![a + 1] = At(q.heap, b), ![b + 1] = At(q.heap, a)]
        p1 == Put(q.position, task_id[At(h2, a)], a)
        p2 == Put(p1, task_id[At(h2, b)], b)
    IN  [heap |-> h2, position |-> p2]

\* variant: the comparison with the parent is reversed
RECURSIVE sift_up_reversed(_, _, _)
sift_up_reversed(q, idx, pr) ==
    IF idx > 0
    THEN LET parent == (idx - 1) \div 2
         IN  IF key(At(q.heap, parent), pr) > key(At(q.heap, idx), pr)
             THEN sift_up_reversed(swap(q, parent, idx), parent, pr)
             ELSE q
    ELSE q

RECURSIVE sift_up(_, _, _)
sift_up(q, idx, pr) ==
    IF idx > 0
    THEN LET parent == (idx - 1) \div 2
         IN  IF key(At(q.heap, parent), pr) < key(At(q.heap, idx), pr)
             THEN sift_up(swap(q, parent, idx), parent, pr)
             ELSE q
    ELSE q

\* variant: a child with an equal key also replaces its parent
RECURSIVE sift_down_ties(_, _, _)
sift_down_ties(q, idx, pr) ==
    LET n == Len(q.heap)
        left == 2 * idx + 1
        right == 2 * idx + 2
        l1 == IF left < n /\ key(At(q.heap, left), pr) >= key(At(q.heap, idx), pr)
              THEN left ELSE idx
        largest == IF right < n /\ key(At(q.heap, right), pr) >= key(At(q.heap, l1), pr)
                   THEN right ELSE l1
    IN  IF largest # idx
        THEN sift_down_ties(swap(q, idx, largest), largest, pr)
        ELSE q

RECURSIVE sift_down(_, _, _)
sift_down(q, idx, pr) ==
    LET n == Len(q.heap)
        left == 2 * idx + 1
        right == 2 * idx + 2
        l1 == IF left < n /\ key(At(q.heap, left), pr) > key(At(q.heap, idx), pr)
              THEN left ELSE idx
        largest == IF right < n /\ key(At(q.heap, right), pr) > key(At(q.heap, l1), pr)
                   THEN right ELSE l1
    IN  IF largest # idx
        THEN sift_down(swap(q, idx, largest), largest, pr)
        ELSE q

insert(q, o, pr) ==
    LET h1 == Append(q.heap, o)
        idx == Len(h1) - 1
        p1 == Put(q.position, task_id[o], idx)
    IN  sift_up([heap |-> h1, position |-> p1], idx, pr)

is_empty(q) == Len(q.heap) = 0

\* variant: on an empty queue nothing is raised and None is returned
extract_top_silent(q, pr) ==
    IF Len(q.heap) = 0
    THEN [heap |-> q.heap, position |-> q.position, err |-> "", top |-> NoTask]
    ELSE LET top == At(q.heap, 0)
             last == At(q.heap, Len(q.heap) - 1)
             h1 == SubSeq(q.heap, 1, Len(q.heap) - 1)
             p1 == Del(q.position, task_id[top])
         IN  IF Len(h1) > 0
             THEN LET q2 == sift_down([heap |-> [h1 EXCEPT ![1] = last],
                                       position |-> Put(p1, task_id[last], 0)], 0, pr)
                  IN  [heap |-> q2.heap, position |-> q2.position, err |-> "", top |-> top]
             ELSE [heap |-> h1, position |-> p1, err |-> "", top |-> top]

\* variant: the last element is popped but not moved to the root
extract_top_keep_root(q, pr) ==
    IF Len(q.heap) = 0
    THEN [heap |-> q.heap, position |-> q.position, err |-> "IndexError", top |-> NoTask]
    ELSE LET top == At(q.heap, 0)
             last == At(q.heap, Len(q.heap) - 1)
             h1 == SubSeq(q.heap, 1, Len(q.heap) - 1)
         IN  IF task_id[top] \notin DOMAIN q.position
             THEN [heap |-> h1, position |-> q.position, err |-> "KeyError", top |-> NoTask]
             ELSE LET p1 == Del(q.position, task_id[top])
                  IN  IF Len(h1) > 0
                      THEN LET q2 == sift_down([heap |-> h1,
                                                position |-> Put(p1, task_id[last], 0)],
                                               0, pr)
                           IN  [heap |-> q2.heap, position |-> q2.position,
                                err |-> "", top |-> top]
                      ELSE [heap |-> h1, position |-> p1, err |-> "", top |-> top]

\* variant: the position entry of the returned task is kept
extract_top_no_del(q, pr) ==
    IF Len(q.heap) = 0
    THEN [heap |-> q.heap, position |-> q.position, err |-> "IndexError", top |-> NoTask]
    ELSE LET top == At(q.heap, 0)
             last == At(q.heap, Len(q.heap) - 1)
             h1 == SubSeq(q.heap, 1, Len(q.heap) - 1)
         IN  IF Len(h1) > 0
             THEN LET q2 == sift_down([heap |-> [h1 EXCEPT ![1] = last],
                                       position |-> Put(q.position, task_id[last], 0)],
                                      0, pr)
                  IN  [heap |-> q2.heap, position |-> q2.position,
                       err |-> "", top |-> top]
             ELSE [heap |-> h1, position |-> q.position, err |-> "", top |-> top]

\* The result carries the exception raised ("" = none) and the Task returned.
extract_top(q, pr) ==
    IF Len(q.heap) = 0
    THEN [heap |-> q.heap, position |-> q.position, err |-> "IndexError", top |-> NoTask]
    ELSE LET top == At(q.heap, 0)
             last == At(q.heap, Len(q.heap) - 1)
             h1 == SubSeq(q.heap, 1, Len(q.heap) - 1)
         IN  IF task_id[top] \notin DOMAIN q.position
             THEN [heap |-> h1, position |-> q.position, err |-> "KeyError", top |-> NoTask]
             ELSE LET p1 == Del(q.position, task_id[top])
                  IN  IF Len(h1) > 0
                      THEN LET q2 == sift_down([heap |-> [h1 EXCEPT ![1] = last],
                                                position |-> Put(p1, task_id[last], 0)],
                                               0, pr)
                           IN  [heap |-> q2.heap, position |-> q2.position,
                                err |-> "", top |-> top]
                      ELSE [heap |-> h1, position |-> p1, err |-> "", top |-> top]

\* variant: a missing id falls back to index 0 (position.get(task_id, 0))
increase_key_default(q, pr, id, new_priority) ==
    LET idx == IF id \in DOMAIN q.position THEN q.position[id] ELSE 0
    IN  IF idx >= Len(q.heap)
        THEN [heap |-> q.heap, position |-> q.position, priority |-> pr,
              err |-> "IndexError"]
        ELSE LET task == At(q.heap, idx)
                 old_priority == pr[task]
                 pr2 == [pr EXCEPT ![task] = new_priority]
                 up == IF use_max_heap
                       THEN new_priority >= old_priority
                       ELSE ~(new_priority >= old_priority)
                 q2 == IF up THEN sift_up(q, idx, pr2) ELSE sift_down(q, idx, pr2)
             IN  [heap |-> q2.heap, position |-> q2.position, priority |-> pr2,
                  err |-> ""]

increase_key(q, pr, id, new_priority) ==
    IF id \notin DOMAIN q.position
    THEN [heap |-> q.heap, position |-> q.position, priority |-> pr, err |-> "KeyError"]
    ELSE LET idx == q.position[id]
         IN  IF idx >= Len(q.heap)
             THEN [heap |-> q.heap, position |-> q.position, priority |-> pr,
                   err |-> "IndexError"]
             ELSE LET task == At(q.heap, idx)
                      old_priority == pr[task]
                      pr2 == [pr EXCEPT ![task] = new_priority]
                      up == IF use_max_heap
                            THEN new_priority >= old_priority
                            ELSE ~(new_priority >= old_priority)
                      q2 == IF up THEN sift_up(q, idx, pr2) ELSE sift_down(q, idx, pr2)
                  IN  [heap |-> q2.heap, position |-> q2.position, priority |-> pr2,
                       err |-> ""]

\* variant: decrease_key has a body of its own that always sifts down
decrease_key_down(q, pr, id, new_priority) ==
    IF id \notin DOMAIN q.position
    THEN [heap |-> q.heap, position |-> q.position, priority |-> pr, err |-> "KeyError"]
    ELSE LET idx == q.position[id]
         IN  IF idx >= Len(q.heap)
             THEN [heap |-> q.heap, position |-> q.position, priority |-> pr,
                   err |-> "IndexError"]
             ELSE LET task == At(q.heap, idx)
                      pr2 == [pr EXCEPT ![task] = new_priority]
                      q2 == sift_down(q, idx, pr2)
                  IN  [heap |-> q2.heap, position |-> q2.position, priority |-> pr2,
                       err |-> ""]

decrease_key(q, pr, id, new_priority) == increase_key(q, pr, id, new_priority)

\* ------------------------------------------- calls on a PriorityQueue
Q == [heap |-> heap, position |-> position]

\* The priority field of a Task that is referenced from nowhere in the
\* heap is the caller's to set before the next insert; it is kept at 0.
Live(h, pr) == [o \in DOMAIN pr |-> IF o \in Range(h) THEN pr[o] ELSE 0]

Resident(id) == \E k \in 1..Len(heap) : task_id[heap[k]] = id

QueueInit ==
    /\ use_max_heap \in BOOLEAN
    /\ heap = <<>>
    /\ position = <<>>
    /\ task_id = [o \in Objs |-> IdNames[o]]
    /\ priority = [o \in Objs |-> 0]
    /\ arrival_time = [o \in Objs |-> None]
    /\ result = Res("init", "", NoTask)
    /\ dups = 0
    /\ pc = "api"
    /\ tasks = <<>>
    /\ pending = <<>>
    /\ i = 0
    /\ time_now = 0
    /\ timeline = <<>>
    /\ iter = <<0, 0, 0, 0>>
    /\ drained = <<>>
    /\ data = <<>>
    /\ sorted_data = <<>>
    /\ resorted = <<>>

\* pq.insert(o): o is a Task already in the heap (the same object again),
\* or a Task of priority p that is in no heap.
Insert(o, p) ==
    /\ pc = "api"
    /\ Len(heap) < MaxHeap
    /\ Resident(task_id[o]) => dups < MaxDups
    /\ LET pr == IF o \in Range(heap) THEN priority ELSE [priority EXCEPT ![o] = p]
           q2 == insert(Q, o, pr)
       IN  /\ heap' = q2.heap
           /\ position' = q2.position
           /\ priority' = pr
           /\ result' = Res("insert", "", NoTask)
    /\ dups' = IF Resident(task_id[o]) THEN dups + 1 ELSE dups
    /\ UNCHANGED <<use_max_heap, task_id, pc>>
    /\ UNCHANGED svars
    /\ UNCHANGED hvars

ExtractTop ==
    /\ pc = "api"
    /\ LET r == extract_top(Q, priority)
       IN  /\ heap' = r.heap
           /\ position' = r.position
           /\ priority' = Live(r.heap, priority)
           /\ result' = Res("extract_top", r.err, r.top)
    /\ UNCHANGED <<use_max_heap, task_id, dups, pc>>
    /\ UNCHANGED svars
    /\ UNCHANGED hvars

IncreaseKey(id, p) ==
    /\ pc = "api"
    /\ LET r == increase_key(Q, priority, id, p)
       IN  /\ heap' = r.heap
           /\ position' = r.position
           /\ priority' = r.priority
           /\ result' = Res("update_priority", r.err, NoTask)
    /\ UNCHANGED <<use_max_heap, task_id, dups, pc>>
    /\ UNCHANGED svars
    /\ UNCHANGED hvars

DecreaseKey(id, p) ==
    /\ pc = "api"
    /\ LET r == decrease_key(Q, priority, id, p)
       IN  /\ heap' = r.heap
           /\ position' = r.position
           /\ priority' = r.priority
           /\ result' = Res("update_priority", r.err, NoTask)
    /\ UNCHANGED <<use_max_heap, task_id, dups, pc>>
    /\ UNCHANGED svars
    /\ UNCHANGED hvars

Ids == {IdNames[o] : o \in Objs}

Next ==
    \/ \E o \in Objs, p \in Priorities : Insert(o, p)
    \/ ExtractTop
    \/ \E id \in Ids, p \in Priorities : IncreaseKey(id, p)
    \/ \E id \in Ids, p \in Priorities : DecreaseKey(id, p)

Spec == QueueInit /\ [][Next]_vars

\* The calls of a caller that never inserts a task whose id is resident.
InsertDistinct(o, p) == ~Resident(task_id[o]) /\ Insert(o, p)

DistinctNext ==
    \/ \E o \in Objs, p \in Priorities : InsertDistinct(o, p)
    \/ ExtractTop
    \/ \E id \in Ids, p \in Priorities : IncreaseKey(id, p)
    \/ \E id \in Ids, p \in Priorities : DecreaseKey(id, p)

DistinctSpec == QueueInit /\ [][DistinctNext]_vars

\* ------------------------------------------------ queue properties
HeapOrdered(h, pr) ==
    \A c \in 1..(Len(h) - 1) : key(At(h, (c - 1) \div 2), pr) >= key(At(h, c), pr)

PositionConsistent(h, pos) ==
    \A k \in 0..(Len(h) - 1) :
        /\ task_id[At(h, k)] \in DOMAIN pos
        /\ pos[task_id[At(h, k)]] \in 0..(Len(h) - 1)
        /\ task_id[At(h, pos[task_id[At(h, k)]])] = task_id[At(h, k)]

\* C1: after any sequence of insert, extract_top and update_priority calls,
\* in max and in min mode, every heap element's effective key is >= the
\* effective key of each of its children.
HeapInvariant == HeapOrdered(heap, priority)

\* The heap order as long as every insert was of an id not resident.
HeapInvariantUnlessDuplicate == (dups = 0) => HeapOrdered(heap, priority)

\* C2: provided no task was inserted while a task with the same id was
\* resident, every resident task has a position entry and
\* heap[position[id]].task_id = id.
PositionInvariant == (dups = 0) => PositionConsistent(heap, position)

PositionWitness ==
    /\ dups = 0
    /\ heap = <<3, 2, 1>>
    /\ result.op = "update_priority"
    /\ result.err = ""
    /\ position = [id \in {"A", "B", "C"} |-> IF id = "A" THEN 2 ELSE IF id = "B" THEN 1 ELSE 0]

\* C3: extract_top on a non-empty queue returns a resident task whose
\* effective key is >= the effective key of every resident task.
ExtractTopReturnsMax ==
    [][(ExtractTop /\ ~is_empty(Q)) =>
          /\ result'.err = ""
          /\ result'.task \in Range(heap)
          /\ \A k \in 1..Len(heap) :
                 key(result'.task, priority) >= key(heap[k], priority)]_vars

\* C10: extract_top raises the empty-queue error exactly when is_empty()
\* holds; it then returns no task and heap and position stay empty.
ExtractTopEmptyError ==
    [][(result'.op = "extract_top" /\ ExtractTop) =>
          /\ (result'.err = "IndexError") <=> is_empty(Q)
          /\ is_empty(Q) => /\ result'.task = NoTask
                            /\ heap' = heap /\ heap' = <<>>
                            /\ position' = position /\ position' = <<>>]_vars

ExtractTopEmptyWitness ==
    /\ result.op = "extract_top"
    /\ result.err = "IndexError"
    /\ heap = <<>>
    /\ dups = 0

\* C11: increase_key or decrease_key called with an id that is not resident
\* (never inserted, or already extracted) raises the task-not-found error
\* (KeyError) and leaves the heap order, every task's priority and the
\* position map unchanged.
UpdateMissingId ==
    \A id \in Ids :
        ~Resident(id) =>
            \A p \in Priorities :
                LET unchanged == [heap |-> heap, position |-> position,
                                  priority |-> priority, err |-> "KeyError"]
                IN  /\ increase_key(Q, priority, id, p) = unchanged
                    /\ decrease_key(Q, priority, id, p) = unchanged

\* B was inserted and extracted again; A and C are resident.
UpdateMissingIdWitness ==
    /\ result.op = "update_priority"
    /\ result.err = "KeyError"
    /\ Len(heap) = 2
    /\ ~Resident("B")
    /\ priority[1] = 1 /\ priority[3] = 2
    /\ dups = 0

\* C12: insert of a task whose id is already resident fails with
\* DuplicateIdError and modifies neither the heap nor the position map.
InsertDuplicateRejected ==
    [][\A o \in Objs, p \in Priorities :
          (Insert(o, p) /\ Resident(task_id[o])) =>
              /\ result'.err = "DuplicateIdError"
              /\ heap' = heap
              /\ position' = position]_vars

\* The tasks that update_priority(id, p) is about, and the task the next
\* extract_top would return after the step.
Targets(id) == {o \in Range(heap) : task_id[o] = id}

NextTop == extract_top([heap |-> heap', position |-> position'], priority')

UpdateEffect(id, p) ==
    /\ \A t \in Targets(id) : priority'[t] = p
    /\ (\A t \in Targets(id), o \in Range(heap') \ Targets(id) :
            key(t, priority') > key(o, priority')) =>
           (NextTop.err = "" /\ NextTop.top \in Targets(id))

\* C13: after update_priority(id, p) on a resident task, that task's
\* priority is p, and if its new effective key is strictly greater than
\* every other resident task's, the next extract_top returns that task.
UpdateThenExtract ==
    [][\A id \in Ids, p \in Priorities :
          ((IncreaseKey(id, p) \/ DecreaseKey(id, p))
              /\ Resident(id) /\ result'.err = "") => UpdateEffect(id, p)]_vars

\* The same statement for queues into which no resident id was inserted.
UpdateThenExtractUnlessDuplicate ==
    [][\A id \in Ids, p \in Priorities :
          ((IncreaseKey(id, p) \/ DecreaseKey(id, p))
              /\ Resident(id) /\ dups = 0) =>
                 (result'.err = "" /\ UpdateEffect(id, p))]_vars

\* The queue after sifting the task at position[id], given priority p, up
\* or down.
SiftedUp(id, p) ==
    sift_up(Q, position[id], [priority EXCEPT ![At(heap, position[id])] = p])

SiftedDown(id, p) ==
    sift_down(Q, position[id], [priority EXCEPT ![At(heap, position[id])] = p])

\* C15: increase_key and decrease_key are interchangeable: called on the
\* same queue state with the same arguments they give the same heap,
\* priorities, position map and error; the task is sifted up when its
\* effective key rose and down when it fell (in min mode a larger priority
\* sifts down, a smaller one up).
UpdateNameFree ==
    \A id \in Ids, p \in Priorities :
        LET r == increase_key(Q, priority, id, p)
        IN  /\ decrease_key(Q, priority, id, p) = r
            /\ r.err = "" =>
                  LET task == At(heap, position[id])
                      old == key(task, priority)
                      new == key(task, r.priority)
                  IN  /\ new > old => [heap |-> r.heap, position |-> r.position] =
                                           SiftedUp(id, p)
                      /\ new < old => [heap |-> r.heap, position |-> r.position] =
                                           SiftedDown(id, p)
                      /\ ~use_max_heap =>
                             /\ p > priority[task] => new < old
                             /\ p < priority[task] => new > old

\* min mode: C was given the smaller priority 1 and went up to the root
UpdateNameFreeWitness ==
    /\ ~use_max_heap
    /\ result.op = "update_priority"
    /\ result.err = ""
    /\ heap = <<3, 2, 1>>
    /\ priority = <<2, 2, 1>>
    /\ dups = 0

\* C19: with distinct ids, insert adds exactly the given task and changes
\* no resident task's priority; a successful extract_top removes exactly
\* the returned task, whose id leaves position, and every other resident
\* task stays resident with its priority; update_priority changes only the
\* target's priority and adds or removes no task; so len(heap) is the
\* number of position entries and grows by one per insert and shrinks by
\* one per successful extraction.
ContentFrame ==
    [][dups' = 0 =>
          /\ \A o \in Objs, p \in Priorities :
                 (result'.op = "insert" /\ Insert(o, p)) =>
                     /\ o \notin Range(heap)
                     /\ Range(heap') = Range(heap) \cup {o}
                     /\ Len(heap') = Len(heap) + 1
                     /\ priority'[o] = p
                     /\ \A x \in Range(heap) : priority'[x] = priority[x]
          /\ (result'.op = "extract_top" /\ result'.err = "" /\ ExtractTop) =>
                 /\ result'.task \in Range(heap)
                 /\ Range(heap') = Range(heap) \ {result'.task}
                 /\ Len(heap') = Len(heap) - 1
                 /\ task_id[result'.task] \notin DOMAIN position'
                 /\ \A x \in Range(heap') :
                        /\ priority'[x] = priority[x]
                        /\ task_id[x] \in DOMAIN position'
          /\ (result'.op = "extract_top" /\ result'.err # "" /\ ExtractTop) =>
                 /\ heap' = heap
                 /\ position' = position
                 /\ priority' = priority
          /\ \A id \in Ids, p \in Priorities :
                 (result'.op = "update_priority"
                     /\ (IncreaseKey(id, p) \/ DecreaseKey(id, p))) =>
                     /\ Range(heap') = Range(heap)
                     /\ Len(heap') = Len(heap)
                     /\ DOMAIN position' = DOMAIN position
                     /\ \A x \in Range(heap) :
                            task_id[x] # id => priority'[x] = priority[x]
          /\ Len(heap') = Cardinality(DOMAIN position')
          /\ Len(heap') = Cardinality(Range(heap'))]_vars

\* B, the top of three resident tasks, was extracted; A and C stay
ContentFrameWitness ==
    /\ use_max_heap
    /\ result = Res("extract_top", "", 2)
    /\ heap = <<1, 3>>
    /\ priority = <<1, 0, 1>>
    /\ DOMAIN position = {"A", "C"}
    /\ dups = 0

TypeOK ==
    /\ use_max_heap \in BOOLEAN
    /\ heap \in Seq(Objs)
    /\ Len(heap) <= MaxHeap
    /\ DOMAIN position \subseteq Ids
    /\ \A id \in DOMAIN position : position[id] \in 0..(MaxHeap - 1)

\* ------------------------------------------------- load, then drain
\* N tasks are inserted into an empty queue, then extract_top is called
\* N times.
DrainTasks == 4
DrainMaxPriority == 5

DrainInit ==
    /\ use_max_heap \in BOOLEAN
    /\ heap = <<>>
    /\ position = <<>>
    /\ \E n \in 0..DrainTasks :
          /\ tasks = [k \in 1..n |-> k]
          /\ task_id = [o \in 1..n |-> IdNames[o]]
          /\ priority \in [1..n -> 1..DrainMaxPriority]
          /\ arrival_time = [o \in 1..n |-> None]
    /\ result = Res("init", "", NoTask)
    /\ dups = 0
    /\ pc = "drain"
    /\ pending = <<>>
    /\ i = 0
    /\ time_now = 0
    /\ timeline = <<>>
    /\ iter = <<0, 0, 0, 0>>
    /\ drained = <<>>
    /\ data = <<>>
    /\ sorted_data = <<>>
    /\ resorted = <<>>

DrainInsert ==
    /\ pc = "drain"
    /\ UNCHANGED hvars
    /\ i < Len(tasks)
    /\ LET q2 == insert(Q, At(tasks, i), priority)
       IN  /\ heap' = q2.heap
           /\ position' = q2.position
    /\ i' = i + 1
    /\ result' = Res("insert", "", NoTask)
    /\ UNCHANGED <<use_max_heap, task_id, priority, arrival_time, dups, pc, tasks,
                   pending, time_now, timeline, iter, drained>>

DrainExtract ==
    /\ pc = "drain"
    /\ UNCHANGED hvars
    /\ i = Len(tasks)
    /\ Len(drained) < Len(tasks)
    /\ LET r == extract_top(Q, priority)
       IN  /\ heap' = r.heap
           /\ position' = r.position
           /\ result' = Res("extract_top", r.err, r.top)
           /\ drained' = IF r.top = NoTask THEN drained
                         ELSE Append(drained, priority[r.top])
    /\ UNCHANGED <<use_max_heap, task_id, priority, arrival_time, dups, pc, tasks,
                   pending, i, time_now, timeline, iter>>

DrainNext == DrainInsert \/ DrainExtract

DrainSpec == DrainInit /\ [][DrainNext]_vars

DrainDone == pc = "drain" /\ i = Len(tasks) /\ Len(drained) = Len(tasks)

Inserted == [k \in 1..Len(tasks) |-> priority[tasks[k]]]

Count(s, v) == Cardinality({k \in 1..Len(s) : s[k] = v})

\* C4: N tasks inserted into an empty queue and drained by N extract_top
\* calls come out in non-increasing priority order in max mode and in
\* non-decreasing order in min mode, as a permutation of the inserted
\* priorities; [3,5,1,4] gives 5,4,3,1 in max mode and 1,3,4,5 in min mode.
DrainOrder ==
    DrainDone =>
        /\ \A k \in 1..(Len(drained) - 1) :
               IF use_max_heap THEN drained[k] >= drained[k + 1]
                               ELSE drained[k] <= drained[k + 1]
        /\ \A v \in 1..DrainMaxPriority : Count(drained, v) = Count(Inserted, v)
        /\ Inserted = <<3, 5, 1, 4>> =>
               drained = IF use_max_heap THEN <<5, 4, 3, 1>> ELSE <<1, 3, 4, 5>>

DrainWitness ==
    /\ DrainDone
    /\ ~use_max_heap
    /\ Inserted = <<3, 5, 1, 4>>
    /\ drained = <<1, 3, 4, 5>>

\* C20: equal priorities are not served first-in first-out: there is a run
\* of insert and extract_top calls in which two resident tasks of equal
\* priority are extracted in the opposite order to their insertion.  Such a
\* run is every load of three or more tasks of one priority: the second
\* extract_top returns the task inserted last while the task inserted
\* second is still resident.
TiesNotFifo ==
    (/\ Len(tasks) >= 3
     /\ \A k \in 1..Len(tasks) : priority[tasks[k]] = priority[tasks[1]]
     /\ i = Len(tasks)
     /\ Len(drained) = 2) =>
        /\ result = Res("extract_top", "", tasks[Len(tasks)])
        /\ tasks[2] \in Range(heap)

TiesNotFifoWitness ==
    /\ pc = "drain"
    /\ use_max_heap
    /\ Len(tasks) = 3
    /\ Inserted = <<2, 2, 2>>
    /\ drained = <<2, 2>>
    /\ result = Res("extract_top", "", 3)
    /\ heap = <<2>>

\* ------------------------------------------------ simulate_scheduler
SchedTasks == 3
FairTasks == 2
SchedMaxPriority == 2
SchedMaxArrival == 2

T(id, p, a) == [task_id |-> id, priority |-> p, arrival_time |-> a]

\* the task list built by main()
MainTasks == <<T("A", 3, 0), T("B", 5, 1), T("C", 1, 2), T("D", 4, 0)>>

\* a single task that arrives at time 10
IdleSkipTasks == <<T("A", 1, 10)>>

\* two Task objects that carry the same task_id
SameIdTasks == <<T("A", 1, 0), T("A", 2, 0), T("B", 3, 1)>>

\* the lists of at most max tasks with ids of their own
TaskLists(max) ==
    UNION {[1..n -> [task_id : {"?"}, priority : 1..SchedMaxPriority,
                     arrival_time : {None} \cup 0..SchedMaxArrival]]
           : n \in 0..max}

Scenarios == {MainTasks, IdleSkipTasks, SameIdTasks}

SchedInputs == TaskLists(SchedTasks) \cup Scenarios

FairInputs == TaskLists(FairTasks) \cup Scenarios

\* lambda t: t.arrival_time if t.arrival_time is not None else 0
sort_key(o) == IF arrival_time[o] # None THEN arrival_time[o] ELSE 0

\* x or d
Or(x, d) == IF x = None \/ x = 0 THEN d ELSE x

\* variant: the list is left in the caller's order
sorted_identity(s) == s

\* sorted(s, key=sort_key): stable, ascending
RECURSIVE sorted(_)
sorted(s) ==
    IF s = <<>>
    THEN <<>>
    ELSE LET front == sorted(SubSeq(s, 1, Len(s) - 1))
             x == s[Len(s)]
             n == Cardinality({k \in 1..Len(front) : sort_key(front[k]) <= sort_key(x)})
         IN  SubSeq(front, 1, n) \o <<x>> \o SubSeq(front, n + 1, Len(front))

Snapshot == <<i, Len(heap), time_now, Len(timeline)>>

\* lines 129-134: the state on entry to the loop
Entry(inputs) ==
    /\ use_max_heap \in BOOLEAN
    /\ \E inp \in inputs :
          /\ tasks = [k \in 1..Len(inp) |-> k]
          /\ task_id = [o \in 1..Len(inp) |->
                           IF inp[o].task_id = "?" THEN IdNames[o] ELSE inp[o].task_id]
          /\ priority = [o \in 1..Len(inp) |-> inp[o].priority]
          /\ arrival_time = [o \in 1..Len(inp) |-> inp[o].arrival_time]
    /\ time_now = 0
    /\ heap = <<>>
    /\ position = <<>>
    /\ timeline = <<>>
    /\ pending = sorted(tasks)
    /\ i = 0
    /\ pc = "while"
    /\ result = Res("init", "", NoTask)
    /\ dups = 0
    /\ iter = <<0, 0, 0, 0>>
    /\ drained = <<>>
    /\ data = <<>>
    /\ sorted_data = <<>>
    /\ resorted = <<>>

SchedInit == Entry(SchedInputs)

FairInit == Entry(FairInputs)

\* line 135: while i < len(pending) or not pq.is_empty()
SchedLoop ==
    /\ pc = "while"
    /\ UNCHANGED hvars
    /\ pc' = IF i < Len(pending) \/ ~is_empty(Q) THEN "admit" ELSE "return"
    /\ iter' = Snapshot
    /\ UNCHANGED <<use_max_heap, heap, position, task_id, priority, arrival_time,
                   result, dups, tasks, pending, i, time_now, timeline, drained>>

\* variant: a task is admitted one time unit before it arrives
admit_ready_early(o, t) == Or(arrival_time[o], 0) <= t + 1

\* line 136: the test of the inner while
admit_ready(o, t) == Or(arrival_time[o], 0) <= t

\* lines 136-138: one pass of the inner while
SchedAdmit ==
    /\ pc = "admit"
    /\ UNCHANGED hvars
    /\ i < Len(pending)
    /\ admit_ready(At(pending, i), time_now)
    /\ LET q2 == insert(Q, At(pending, i), priority)
       IN  /\ heap' = q2.heap
           /\ position' = q2.position
    /\ dups' = IF Resident(task_id[At(pending, i)]) THEN dups + 1 ELSE dups
    /\ i' = i + 1
    /\ result' = Res("insert", "", NoTask)
    /\ UNCHANGED <<use_max_heap, task_id, priority, arrival_time, pc, tasks,
                   pending, time_now, timeline, iter, drained>>

\* line 136: the inner while ends
SchedAdmitEnd ==
    /\ pc = "admit"
    /\ UNCHANGED hvars
    /\ ~(i < Len(pending) /\ admit_ready(At(pending, i), time_now))
    /\ pc' = "dispatch"
    /\ UNCHANGED <<use_max_heap, heap, position, task_id, priority, arrival_time,
                   result, dups, tasks, pending, i, time_now, timeline, iter, drained>>

\* variant: the clock is left where it is
idle_time_stuck(t) == t

\* variant: the clock steps through the idle units one at a time
idle_time_step(t) == IF i < Len(pending) THEN t + 1 ELSE t

\* line 140: the clock after an iteration that found the queue empty
idle_time(t) ==
    IF i < Len(pending) THEN Or(arrival_time[At(pending, i)], t) ELSE t

\* lines 139-141: queue empty, fast-forward and continue
SchedIdle ==
    /\ pc = "dispatch"
    /\ UNCHANGED hvars
    /\ is_empty(Q)
    /\ time_now' = idle_time(time_now)
    /\ pc' = "while"
    /\ UNCHANGED <<use_max_heap, heap, position, task_id, priority, arrival_time,
                   result, dups, tasks, pending, i, timeline, iter, drained>>

\* variant: the clock is not advanced after a dispatch
SchedDispatch_no_tick ==
    /\ pc = "dispatch"
    /\ UNCHANGED hvars
    /\ ~is_empty(Q)
    /\ LET r == extract_top(Q, priority)
       IN  /\ heap' = r.heap
           /\ position' = r.position
           /\ result' = Res("extract_top", r.err, r.top)
           /\ IF r.err = ""
              THEN /\ timeline' = Append(timeline, <<time_now, r.top>>)
                   /\ time_now' = time_now
                   /\ pc' = "while"
              ELSE /\ UNCHANGED <<timeline, time_now>>
                   /\ pc' = "raise"
    /\ UNCHANGED <<use_max_heap, task_id, priority, arrival_time, dups, tasks,
                   pending, i, iter, drained>>

\* lines 142-144: dispatch the top task; an exception of extract_top
\* leaves simulate_scheduler
SchedDispatch ==
    /\ pc = "dispatch"
    /\ UNCHANGED hvars
    /\ ~is_empty(Q)
    /\ LET r == extract_top(Q, priority)
       IN  /\ heap' = r.heap
           /\ position' = r.position
           /\ result' = Res("extract_top", r.err, r.top)
           /\ IF r.err = ""
              THEN /\ timeline' = Append(timeline, <<time_now, r.top>>)
                   /\ time_now' = time_now + 1
                   /\ pc' = "while"
              ELSE /\ UNCHANGED <<timeline, time_now>>
                   /\ pc' = "raise"
    /\ UNCHANGED <<use_max_heap, task_id, priority, arrival_time, dups, tasks,
                   pending, i, iter, drained>>

SchedNext ==
    \/ SchedLoop
    \/ SchedAdmit
    \/ SchedAdmitEnd
    \/ SchedIdle
    \/ SchedDispatch

SchedSpec == SchedInit /\ [][SchedNext]_vars

\* simulate_scheduler is sequential code that runs until it returns
SchedFairSpec == FairInit /\ [][SchedNext]_vars /\ WF_vars(SchedNext)

\* --------------------------------------------- scheduler properties
\* arrival time of a task, an absent one counted as 0
Arrival(o) == IF arrival_time[o] = None THEN 0 ELSE arrival_time[o]

Min(S) == CHOOSE x \in S : \A y \in S : x <= y

Max2(a, b) == IF a >= b THEN a ELSE b

TimeAt(k) == timeline[k][1]
TaskAt(k) == timeline[k][2]

\* the input tasks not dispatched by the entries before entry k
Waiting(k) == Range(tasks) \ {TaskAt(j) : j \in 1..(k - 1)}

DistinctIds == \A a, b \in Range(tasks) : task_id[a] = task_id[b] => a = b

IsMainTasks ==
    /\ task_id = <<"A", "B", "C", "D">>
    /\ priority = <<3, 5, 1, 4>>
    /\ arrival_time = <<0, 1, 2, 0>>

IsIdleSkipTasks ==
    /\ task_id = <<"A">>
    /\ arrival_time = <<10>>

\* C5: the task of every timeline entry (t, task) has arrived by t, was not
\* dispatched earlier, and has the maximum effective key among all input
\* tasks that have arrived by t and were not dispatched earlier.
DispatchRule ==
    \A k \in 1..Len(timeline) :
        LET eligible == {o \in Waiting(k) : Arrival(o) <= TimeAt(k)}
        IN  /\ TaskAt(k) \in eligible
            /\ \A o \in eligible : key(TaskAt(k), priority) >= key(o, priority)

DispatchWitness ==
    /\ pc = "return"
    /\ Len(timeline) = 3
    /\ arrival_time[TaskAt(1)] = None
    /\ arrival_time[TaskAt(2)] = 1
    /\ arrival_time[TaskAt(3)] = 0
    /\ key(TaskAt(1), priority) > key(TaskAt(3), priority)
    /\ key(TaskAt(2), priority) > key(TaskAt(3), priority)

\* C6: on the tasks of main() in max-heap mode simulate_scheduler returns
\* exactly [(0,D),(1,B),(2,A),(3,C)].
MainTimeline ==
    (IsMainTasks /\ use_max_heap) =>
        /\ pc # "raise"
        /\ pc = "return" =>
               [k \in 1..Len(timeline) |-> <<TimeAt(k), task_id[TaskAt(k)]>>]
                   = <<(<<0, "D">>), (<<1, "B">>), (<<2, "A">>), (<<3, "C">>)>>

MainWitness ==
    /\ IsMainTasks
    /\ use_max_heap
    /\ pc = "return"
    /\ Len(timeline) = 4
    /\ task_id[TaskAt(1)] = "D"

\* C7: for tasks with distinct ids the returned timeline contains every
\* input task exactly once, and on return the pending list is exhausted
\* and the queue is empty.
FullTimeline ==
    DistinctIds =>
        /\ pc # "raise"
        /\ pc = "return" =>
               /\ Len(timeline) = Len(tasks)
               /\ \A o \in Range(tasks) :
                      Cardinality({k \in 1..Len(timeline) : TaskAt(k) = o}) = 1
               /\ i = Len(pending)
               /\ is_empty(Q)

FullTimelineWitness ==
    /\ DistinctIds
    /\ pc = "return"
    /\ Len(timeline) = 3
    /\ TimeAt(1) = 1
    /\ TimeAt(3) = 3

IterationEnd == pc = "dispatch" /\ pc' = "while"

\* C8: the loop terminates, and every iteration admits at least one task,
\* extracts exactly one task, or strictly advances the clock to a pending
\* task's arrival time; none leaves cursor, queue and clock all unchanged.
Termination ==
    /\ <>(pc = "return")
    /\ [][IterationEnd =>
             /\ \/ i' > iter[1]
                \/ /\ Len(timeline') = iter[4] + 1
                   /\ Len(heap') = Len(heap) - 1
                \/ /\ time_now' > iter[3]
                   /\ i' < Len(pending)
                   /\ time_now' = Arrival(At(pending, i'))
             /\ <<i', Len(heap'), time_now'>> # <<iter[1], iter[2], iter[3]>>]_vars

TerminationWitness ==
    /\ pc = "return"
    /\ Len(timeline) = 2
    /\ TimeAt(1) = 0
    /\ TimeAt(2) = 2

\* C9: when the queue is empty while tasks remain pending, the clock is set
\* to the next pending task's arrival time and the timeline is left alone;
\* the time of every entry is max(previous time + 1, earliest arrival among
\* the tasks not yet dispatched), the first being the earliest arrival; a
\* single task arriving at time 10 yields [(10, task)].
IdleSkip ==
    /\ [][(SchedIdle /\ i < Len(pending)) =>
             /\ time_now' = Arrival(At(pending, i))
             /\ timeline' = timeline]_vars
    /\ [](\A k \in 1..Len(timeline) :
             LET earliest == Min({Arrival(o) : o \in Waiting(k)})
             IN  TimeAt(k) = IF k = 1 THEN earliest
                             ELSE Max2(TimeAt(k - 1) + 1, earliest))
    /\ []((IsIdleSkipTasks /\ pc = "return") => timeline = <<(<<10, 1>>)>>)

IdleSkipWitness ==
    /\ IsIdleSkipTasks
    /\ pc = "return"
    /\ timeline = <<(<<10, 1>>)>>
    /\ iter[3] = 11

\* C16: every timeline entry (t, task) has t >= task.arrival_time, an
\* absent arrival_time counting as 0.
ArrivalGating ==
    \A k \in 1..Len(timeline) : TimeAt(k) >= Arrival(TaskAt(k))

\* idle until 1, then one task waits from 2 to 3
ArrivalGatingWitness ==
    /\ pc = "return"
    /\ [k \in 1..Len(timeline) |-> TimeAt(k)] = <<1, 2, 3>>
    /\ [k \in 1..Len(timeline) |-> arrival_time[TaskAt(k)]] = <<1, 2, 2>>

\* C17: the times of the timeline entries are strictly increasing: at most
\* one dispatch per time unit, and the clock never moves backwards.
TimesIncreasing ==
    \A k \in 1..(Len(timeline) - 1) : TimeAt(k) < TimeAt(k + 1)

\* a dispatch at 0, a fast-forward over 1, dispatches at 2 and 3
TimesIncreasingWitness ==
    /\ pc = "return"
    /\ [k \in 1..Len(timeline) |-> TimeAt(k)] = <<0, 2, 3>>
    /\ DistinctIds

\* ---------------------------------- simulate_scheduler as a function
\* The call as one function of the tasks' arrival times at: the other
\* fields of the tasks and the mode are those of the state.  st holds the
\* locals pq, i, time_now and timeline, and the exception that ended the
\* call ("" = none).

\* variant: a task without arrival_time sorts behind every other task
arrival_key_none_last(at, o) == IF at[o] # None THEN at[o] ELSE SchedMaxArrival + 1

\* lambda t: t.arrival_time if t.arrival_time is not None else 0
arrival_key(at, o) == IF at[o] # None THEN at[o] ELSE 0

\* sorted(s, key=...): stable, ascending
RECURSIVE sorted_by(_, _)
sorted_by(at, s) ==
    IF s = <<>>
    THEN <<>>
    ELSE LET front == sorted_by(at, SubSeq(s, 1, Len(s) - 1))
             x == s[Len(s)]
             n == Cardinality({k \in 1..Len(front) :
                                  arrival_key(at, front[k]) <= arrival_key(at, x)})
         IN  SubSeq(front, 1, n) \o <<x>> \o SubSeq(front, n + 1, Len(front))

\* lines 136-138: the inner while
RECURSIVE admit_all(_, _, _)
admit_all(at, pend, st) ==
    IF st.i < Len(pend) /\ Or(at[At(pend, st.i)], 0) <= st.time_now
    THEN admit_all(at, pend,
                   [st EXCEPT !.pq = insert(st.pq, At(pend, st.i), priority),
                              !.i = st.i + 1])
    ELSE st

\* lines 135-144: the outer while
RECURSIVE run_loop(_, _, _)
run_loop(at, pend, st) ==
    IF ~(st.i < Len(pend) \/ ~is_empty(st.pq))
    THEN st
    ELSE LET s1 == admit_all(at, pend, st)
         IN  IF is_empty(s1.pq)
             THEN run_loop(at, pend,
                           [s1 EXCEPT !.time_now =
                               IF s1.i < Len(pend)
                               THEN Or(at[At(pend, s1.i)], s1.time_now)
                               ELSE s1.time_now])
             ELSE LET r == extract_top(s1.pq, priority)
                  IN  IF r.err # ""
                      THEN [s1 EXCEPT !.err = r.err]
                      ELSE run_loop(at, pend,
                                    [s1 EXCEPT
                                        !.pq = [heap |-> r.heap, position |-> r.position],
                                        !.timeline = Append(s1.timeline,
                                                            <<s1.time_now, r.top>>),
                                        !.time_now = s1.time_now + 1])

\* the exception raised and the timeline returned
simulate_scheduler(at) ==
    LET st == run_loop(at, sorted_by(at, tasks),
                       [pq |-> [heap |-> <<>>, position |-> <<>>], i |-> 0,
                        time_now |-> 0, timeline |-> <<>>, err |-> ""])
    IN  [err |-> st.err, timeline |-> IF st.err = "" THEN st.timeline ELSE <<>>]

\* at with every None and every 0 replaced by v
Replaced(at, v) == [o \in DOMAIN at |-> IF at[o] = None \/ at[o] = 0 THEN v ELSE at[o]]

Returned == pc = "return" \/ pc = "raise"

\* C18: an absent arrival_time (None) is the same as arrival_time 0:
\* replacing None by 0 on the tasks of the input, or 0 by None, leaves the
\* timeline that simulate_scheduler returns unchanged.  Every input gives
\* the timeline of its all-0 and of its all-None form, so two inputs that
\* differ only in None against 0 on some tasks give the same timeline.
NoneIsZero ==
    Returned =>
        /\ simulate_scheduler(arrival_time) =
               [err |-> IF pc = "raise" THEN result.err ELSE "",
                timeline |-> IF pc = "raise" THEN <<>> ELSE timeline]
        /\ simulate_scheduler(Replaced(arrival_time, 0)) =
               simulate_scheduler(arrival_time)
        /\ simulate_scheduler(Replaced(arrival_time, None)) =
               simulate_scheduler(arrival_time)

\* B has no arrival_time and the larger key; C, with arrival_time 0, is
\* dispatched after it
NoneIsZeroWitness ==
    /\ pc = "return"
    /\ use_max_heap
    /\ arrival_time = <<1, None, 0>>
    /\ priority = <<2, 2, 1>>
    /\ [k \in 1..Len(timeline) |-> <<TimeAt(k), TaskAt(k)>>] =
           <<(<<0, 2>>), (<<1, 1>>), (<<2, 3>>)>>

\* ---------------------------------------------------------- heapsort
SortMaxLen == 5
SortMaxValue == 2

SortValues == (-1)..SortMaxValue

SortInputs == UNION {[1..n -> SortValues] : n \in 0..SortMaxLen}

\* a[x], a[y] = a[y], a[x]
exchange(a, x, y) == [a EXCEPT ![x + 1] = a[y + 1], ![y + 1] = a[x + 1]]

\* the nested sift_down(a, start, end) of heapsort; root starts at start
RECURSIVE heapsort_sift_down(_, _, _)
heapsort_sift_down(a, root, end) ==
    LET child == 2 * root + 1
    IN  IF child > end
        THEN a
        ELSE LET c == IF child + 1 <= end /\ At(a, child) < At(a, child + 1)
                      THEN child + 1 ELSE child
             IN  IF At(a, root) < At(a, c)
                 THEN heapsort_sift_down(exchange(a, root, c), c, end)
                 ELSE a

\* for start in range((n - 2) // 2, -1, -1): sift_down(a, start, n - 1)
RECURSIVE build_heap(_, _)
build_heap(a, start) ==
    IF start < 0 THEN a
    ELSE build_heap(heapsort_sift_down(a, start, Len(a) - 1), start - 1)

\* for end in range(n - 1, 0, -1): swap a[0] and a[end]; sift_down(a, 0, end - 1)
RECURSIVE sort_down(_, _)
sort_down(a, end) ==
    IF end < 1 THEN a
    ELSE sort_down(heapsort_sift_down(exchange(a, 0, end), 0, end - 1), end - 1)

\* variant: sorts the caller's list itself (a = arr instead of a = arr[:])
heapsort_in_place(arr) ==
    LET n == Len(arr)
        a == sort_down(build_heap(arr, (n - 2) \div 2), n - 1)
    IN  [arr |-> a, a |-> a]

\* heapsort(arr): arr is the caller's list after the call, a the list returned
heapsort(arr) ==
    LET n == Len(arr)
        a == sort_down(build_heap(arr, (n - 2) \div 2), n - 1)
    IN  [arr |-> arr, a |-> a]

HeapsortInit ==
    /\ data \in SortInputs
    /\ sorted_data = <<>>
    /\ resorted = <<>>
    /\ pc = "main"
    /\ use_max_heap = TRUE
    /\ heap = <<>>
    /\ position = <<>>
    /\ task_id = <<>>
    /\ priority = <<>>
    /\ arrival_time = <<>>
    /\ result = Res("init", "", NoTask)
    /\ dups = 0
    /\ tasks = <<>>
    /\ pending = <<>>
    /\ i = 0
    /\ time_now = 0
    /\ timeline = <<>>
    /\ iter = <<0, 0, 0, 0>>
    /\ drained = <<>>

\* sorted_data = heapsort(data)
Heapsort ==
    /\ pc = "main"
    /\ LET r == heapsort(data)
       IN  /\ data' = r.arr
           /\ sorted_data' = r.a
    /\ pc' = "sorted"
    /\ UNCHANGED <<qvars, svars, resorted>>

\* resorted = heapsort(sorted_data)
HeapsortAgain ==
    /\ pc = "sorted"
    /\ LET r == heapsort(sorted_data)
       IN  /\ sorted_data' = r.arr
           /\ resorted' = r.a
    /\ pc' = "resorted"
    /\ UNCHANGED <<qvars, svars, data>>

HeapsortNext == Heapsort \/ HeapsortAgain

HeapsortSpec == HeapsortInit /\ [][HeapsortNext]_vars

NonDecreasing(s) == \A k \in 1..(Len(s) - 1) : s[k] <= s[k + 1]

SameMultiset(s, t) ==
    /\ Len(s) = Len(t)
    /\ \A v \in Range(s) \cup Range(t) : Count(s, v) = Count(t, v)

====
